---------------------------- MODULE Spec2Model ----------------------------
(***************************************************************************)
(* ResolveIt: the case status workflow of the Express/Prisma server.       *)
(*                                                                         *)
(* Every route handler is an async function: it runs until its next        *)
(* `await prisma...` and other handlers may run in between.  A request is  *)
(* therefore a little process whose steps are its database round trips.    *)
(* No handler opens a transaction (prisma.$transaction is never called),   *)
(* so each round trip is atomic on its own and nothing is rolled back      *)
(* when a later one throws: the handler's catch block answers 500.         *)
(*                                                                         *)
(* Reads of the user table are folded into the step before them: the       *)
(* workflow never writes that table.  A handler's first read of the case   *)
(* is folded into the arrival of the request, and its synchronous tail     *)
(* (io.emit, res.json) into its last database round trip.                  *)
(***************************************************************************)
EXTENDS Integers, Sequences, FiniteSets, Bags, TLC

(***************************************************************************)
(* Bounds of the model.                                                    *)
(***************************************************************************)
MaxCases == 1           \* case rows created in one behaviour
MaxRequests == 4        \* requests that get past their first check
MaxOverrides == 1       \* admin status changes in one behaviour
MaxFailures == 1        \* persistence writes that throw in one behaviour
MaxSeqRequests == 5     \* the same as MaxRequests, for requests served in turn
MaxAdminOverrides == 2  \* the same as MaxOverrides, for the admin on his own
MaxInboxRequests == 4   \* the same as MaxRequests, for the notification routes
MaxTwoCases == 2        \* the same as MaxCases, where two cases are filed
MaxTwoRequests == 3     \* the same as MaxRequests, where two cases are filed

Procs == {1, 2}         \* requests that can be in flight together

(***************************************************************************)
(* The user table.  It is seeded and never written by the workflow.        *)
(***************************************************************************)
Users == {"ann", "bob", "adm"}
NoUser == "null"

Role(u) == IF u = "adm" THEN "ADMIN" ELSE "USER"

\* who sends requests to the admin routes: the users, and someone without
\* a valid token
Callers == Users \cup {NoUser}

\* authenticate: a valid token of an existing user, else 401
Authenticated(u) == u \in Users

\* the role check left out
IsAdminAnyone(u) == TRUE

\* requireAdmin: req.user.role !== "ADMIN" is answered 403
IsAdmin(u) == Role(u) = "ADMIN"

\* prisma.user.findUnique({ where: { email } }): the user's id, or null
UserByEmail(e) ==
    CASE e = "ann@x" -> "ann"
      [] e = "bob@x" -> "bob"
      [] e = "adm@x" -> "adm"
      [] OTHER -> NoUser

EmailOf(u) ==
    CASE u = "ann" -> "ann@x"
      [] u = "bob" -> "bob@x"
      [] u = "adm" -> "adm@x"

\* enum CaseStatus
Statuses ==
    {"PENDING", "AWAITING_RESPONSE", "ACCEPTED", "WITNESSES_NOMINATED",
     "PANEL_CREATED", "MEDIATION_IN_PROGRESS", "RESOLVED", "UNRESOLVED",
     "CANCELLED"}

NoStatus == "none"

VARIABLES
    cases,          \* table Case: sequence of rows, a row's id is its index
    history,        \* table CaseHistory: sequence of rows in creation order
    notifications,  \* table Notification: bag of rows (ids left out)
    witnessRows,    \* table Witness: bag of rows (ids left out)
    panels,         \* table MediationPanel: set of rows
    nreq,           \* requests that got past their first check so far
    nfail,          \* persistence writes that threw so far
    req,            \* the request each handler slot is serving
    last,           \* the request answered last, as it was when answered
    load            \* the requests, overrides and failures a run goes up to

vars == <<cases, history, notifications, witnessRows, panels, nreq, nfail, req,
          last, load>>

store == <<cases, history, notifications, witnessRows, panels>>

(***************************************************************************)
(* A request: its inputs (user, cid, email, accepted, status, reason,      *)
(* emails, members), the handler's locals (caseData, respondentId, found), its     *)
(* answer (res) and a record of what it did, which the program does not    *)
(* keep: pre and post are the case's status just before and just after     *)
(* the request's last status write, hist the history rows it appended,     *)
(* notified the notification rows it created, emitted its io.emit calls,   *)
(* wrote the tables it changed, known the witness rows of its createMany   *)
(* that were in the table already and added the ones it wrote, received   *)
(* the users whose sockets got its pushes, thrown what threw in it; nid is *)
(* the notification id in its path and wasRead that row's flag before.     *)
(***************************************************************************)
\* no reason in the body
NoReason == [given |-> FALSE, len |-> 0]

\* no notification id
NoNotification == [userId |-> NoUser, caseId |-> 0, title |-> ""]

NoCaseData ==
    [status |-> NoStatus, complainantId |-> NoUser, respondentId |-> NoUser,
     mediationPanel |-> FALSE]

Idle ==
    [op |-> "idle", pc |-> "idle", user |-> NoUser, cid |-> 0,
     email |-> "", accepted |-> FALSE, status |-> NoStatus,
     reason |-> NoReason,
     emails |-> << >>, members |-> << >>,
     caseData |-> NoCaseData, respondentId |-> NoUser, found |-> << >>,
     res |-> 0, pre |-> NoStatus, post |-> NoStatus,
     hist |-> << >>, notified |-> << >>, emitted |-> << >>, wrote |-> {},
     known |-> {}, added |-> {}, nid |-> NoNotification, wasRead |-> FALSE,
     thrown |-> "none", received |-> {}]

\* the answer sent in the last step has gone out
Quiet == last.pc = "idle"

\* the handler in slot p stands before one of the awaits pcs
At(p, pcs) == Quiet /\ req[p].pc \in pcs

\* the server takes a request in its lowest free slot
Accepts(p) ==
    /\ Quiet
    /\ req[p].pc = "idle"
    /\ \A q \in Procs : q < p => req[q].pc # "idle"
    /\ nreq < load.requests

CaseIds == 1..Len(cases)

\* the opposite-party e-mails tried: bob's, an unregistered one, none; and
\* the complainant's own
CreateCaseEmails == {"bob@x", "zed@x", ""}
OwnEmails == {"ann@x"}

\* the tables are empty and no request has arrived; l is the run's load
InitWith(l) ==
    /\ cases = << >>
    /\ history = << >>
    /\ notifications = EmptyBag
    /\ witnessRows = EmptyBag
    /\ panels = {}
    /\ nreq = 0
    /\ nfail = 0
    /\ req = [p \in Procs |-> Idle]
    /\ last = Idle
    /\ load = l

Init ==
    InitWith([requests |-> MaxRequests, overrides |-> MaxOverrides,
              failures |-> MaxFailures,
              cases |-> MaxCases, emails |-> CreateCaseEmails])

\* the handler goes on to its next await
Continue(p, r) ==
    /\ req' = [req EXCEPT ![p] = r]
    /\ last' = Idle
    /\ UNCHANGED load

\* the request got past its first check and occupies slot p
Admit(p, r) ==
    /\ Continue(p, r)
    /\ nreq' = nreq + 1

\* the handler answers with an HTTP status and its slot is free again
Reply(p, r, code) ==
    /\ req' = [req EXCEPT ![p] = Idle]
    /\ last' = [r EXCEPT !.pc = "done", !.res = code]
    /\ UNCHANGED load

\* a request that is answered by its first check
Reject(r, code) ==
    /\ last' = [r EXCEPT !.pc = "done", !.res = code]
    /\ UNCHANGED <<req, nreq, load>>

(***************************************************************************)
(* Row constructors.                                                       *)
(***************************************************************************)
\* prisma.caseHistory.create; only the admin route passes metadata
HistoryRow(c, action, by, prev, new) ==
    [caseId |-> c, action |-> action, performedById |-> by,
     previousStatus |-> prev, newStatus |-> new]

\* prisma.notification.create: isRead defaults to false
NotificationRow(u, c, title) ==
    [userId |-> u, caseId |-> c, title |-> title, isRead |-> FALSE]

\* the rows created for a sequence of <<user, title>> pairs
RECURSIVE NotificationRows(_, _)
NotificationRows(list, c) ==
    IF list = << >> THEN EmptyBag
    ELSE SetToBag({NotificationRow(list[1][1], c, list[1][2])})
            (+) NotificationRows(Tail(list), c)

\* what a handler keeps of the case row it read
CaseData(c) ==
    [status |-> cases[c].status, complainantId |-> cases[c].complainantId,
     respondentId |-> cases[c].respondentId,
     mediationPanel |-> \E m \in panels : m.caseId = c]

\* a fixed order of the rows a findMany returned
RECURSIVE SetToSeq(_)
SetToSeq(S) ==
    IF S = {} THEN << >>
    ELSE LET x == CHOOSE y \in S : TRUE IN <<x>> \o SetToSeq(S \ {x})

\* the request after its case.update: the status the row had and has now
StatusWritten(r) ==
    [r EXCEPT !.pre = cases[r.cid].status, !.post = cases'[r.cid].status,
              !.wrote = @ \cup {"case"}]

\* the request after a caseHistory.create of row h
HistoryWritten(r, h) ==
    [r EXCEPT !.hist = Append(@, h), !.wrote = @ \cup {"history"}]

\* the users with a connected socket; each socket is in the room user_<id>
\* of its user
Sockets == Users

\* io.to(`user_${id}`).emit: the sockets in the user's room
ReceiversInRoom(e) == {u \in Sockets : u = e[1]}

\* io.emit(`notification_${id}`, ...): every connected socket
Receivers(e) == Sockets

\* the request after the io.emit calls for the <<user, type>> pairs
Emitted(r, list) ==
    [r EXCEPT !.emitted = @ \o list,
              !.received = @ \cup UNION {Receivers(list[i]) :
                                            i \in 1..Len(list)}]

\* the request after notification.create for the <<user, title>> pairs
Notified(r, list) ==
    [r EXCEPT !.notified = @ \o list, !.wrote = @ \cup {"notification"}]

(***************************************************************************)
(* POST /api/cases                                                         *)
(***************************************************************************)
\* the bodies tried: ann files against bob, against an unregistered address
\* and without an address
CreateCaseUsers == {"ann"}

\* `RES-${year}-${String(Date.now()).slice(-6)}`: the last six digits of the
\* clock, so the number is a new one or that of a case created in the same
\* millisecond (or a multiple of 10^6 ms earlier).  Numbers are abstracted
\* to 1, 2, ...: only their equality matters.
CaseNumberChoices ==
    {cases[i].caseNumber : i \in CaseIds} \cup {Len(cases) + 1}

\* the lookup of the opposite party left out
ResolveRespondentNever(e) == NoUser

\* let respondentId = null; if (oppositePartyEmail) { findUnique ... }
ResolveRespondent(e) == IF e # "" THEN UserByEmail(e) ELSE NoUser

\* the guard of the respondent's part left out
HasRespondentAlways(r) == TRUE

\* if (respondentId) { notification.create, case.update, io.emit }
HasRespondent(r) == r.respondentId # NoUser

NewCaseRow(n, u, r) ==
    [caseNumber |-> n, complainantId |-> u, respondentId |-> r,
     status |-> "PENDING", respondentAccepted |-> "null"]

CreatingCases == {q \in Procs : req[q].pc = "cc_create"}

StartCreateCase(p) ==
    /\ Accepts(p)
    /\ Len(cases) + Cardinality(CreatingCases) < load.cases
    /\ \E u \in CreateCaseUsers, e \in load.emails :
          Admit(p, [Idle EXCEPT !.op = "createCase", !.user = u,
                                   !.email = e,
                                   !.respondentId = ResolveRespondent(e),
                                   !.pc = "cc_create"])
    /\ UNCHANGED <<store, nfail>>

\* the unique constraint left out
CaseNumberTakenNever(n) == FALSE

\* caseNumber String @unique
CaseNumberTaken(n) == \E i \in CaseIds : cases[i].caseNumber = n

\* prisma.case.create: a taken caseNumber throws
CcCreate(p) ==
    /\ At(p, {"cc_create"})
    /\ \E n \in CaseNumberChoices :
          IF CaseNumberTaken(n)
          THEN /\ Reply(p, req[p], 500)
               /\ UNCHANGED cases
          ELSE /\ cases' = Append(cases,
                      NewCaseRow(n, req[p].user, req[p].respondentId))
               /\ Continue(p, [req[p] EXCEPT !.pc = "cc_history",
                                             !.cid = Len(cases) + 1,
                                             !.post = "PENDING",
                                             !.wrote = @ \cup {"case"}])
    /\ UNCHANGED <<history, notifications, witnessRows, panels, nreq, nfail>>

CcHistory(p) ==
    /\ At(p, {"cc_history"})
    /\ LET h == HistoryRow(req[p].cid, "CASE_CREATED", req[p].user,
                           NoStatus, NoStatus)
       IN /\ history' = Append(history, h)
          /\ Continue(p, [HistoryWritten(req[p], h) EXCEPT
                             !.pc = "cc_notify1"])
    /\ UNCHANGED <<cases, notifications, witnessRows, panels, nreq, nfail>>

\* notification for the complainant; without a respondent the handler then
\* reads the case back and answers 201
CcNotifyComplainant(p) ==
    /\ At(p, {"cc_notify1"})
    /\ LET list == << <<req[p].user, "Case Registered Successfully">> >>
           r == Notified(req[p], list)
       IN /\ notifications' = notifications (+)
                                  NotificationRows(list, req[p].cid)
          /\ IF HasRespondent(req[p])
             THEN Continue(p, [r EXCEPT !.pc = "cc_notify2"])
             ELSE Reply(p, r, 201)
    /\ UNCHANGED <<cases, history, witnessRows, panels, nreq, nfail>>

CcNotifyRespondent(p) ==
    /\ At(p, {"cc_notify2"})
    /\ LET list == << <<req[p].respondentId, "New Case Filed Against You">> >>
       IN /\ notifications' = notifications (+)
                                  NotificationRows(list, req[p].cid)
          /\ Continue(p, [Notified(req[p], list) EXCEPT !.pc = "cc_update"])
    /\ UNCHANGED <<cases, history, witnessRows, panels, nreq, nfail>>

\* case.update({ where: { id }, data: { status: "AWAITING_RESPONSE" } }),
\* then io.emit, the read back and the 201
CcUpdate(p) ==
    /\ At(p, {"cc_update"})
    /\ cases' = [cases EXCEPT ![req[p].cid].status = "AWAITING_RESPONSE"]
    /\ Reply(p, Emitted(StatusWritten(req[p]),
                         << <<req[p].respondentId, "NEW_CASE">> >>),
             201)
    /\ UNCHANGED <<history, notifications, witnessRows, panels, nreq, nfail>>

(***************************************************************************)
(* POST /api/cases/:id/respond                                             *)
(***************************************************************************)
\* the status filter left out of the where clause
RespondWhereAnyStatus(c, u) == cases[c].respondentId = u

\* findFirst({ where: { id, respondentId: req.user.id,
\*                      status: "AWAITING_RESPONSE" } })
RespondWhere(c, u) ==
    /\ cases[c].respondentId = u
    /\ cases[c].status = "AWAITING_RESPONSE"

\* the two branches of the ternary swapped
RespondStatusSwapped(accepted) ==
    IF accepted THEN "UNRESOLVED" ELSE "ACCEPTED"

\* status: accepted ? "ACCEPTED" : "UNRESOLVED"
RespondStatus(accepted) == IF accepted THEN "ACCEPTED" ELSE "UNRESOLVED"

\* the history action of a rejection written as that of an acceptance
RespondActionAlwaysAccepted(accepted) == "CASE_ACCEPTED"

\* action: accepted ? "CASE_ACCEPTED" : "CASE_REJECTED"
RespondAction(accepted) ==
    IF accepted THEN "CASE_ACCEPTED" ELSE "CASE_REJECTED"

StartRespond(p) ==
    /\ Accepts(p)
    /\ \E u \in Users, c \in CaseIds, a \in BOOLEAN :
          LET r == [Idle EXCEPT !.op = "respond", !.user = u, !.cid = c,
                                !.accepted = a]
          IN IF RespondWhere(c, u)
             THEN Admit(p, [r EXCEPT !.caseData = CaseData(c),
                                        !.pc = "rs_update"])
             ELSE Reject(r, 404)
    /\ UNCHANGED <<store, nfail>>

RsUpdate(p) ==
    /\ At(p, {"rs_update"})
    /\ cases' = [cases EXCEPT
          ![req[p].cid].status = RespondStatus(req[p].accepted),
          ![req[p].cid].respondentAccepted =
              IF req[p].accepted THEN "true" ELSE "false"]
    /\ Continue(p, [StatusWritten(req[p])
                       EXCEPT !.pc = "rs_history"])
    /\ UNCHANGED <<history, notifications, witnessRows, panels, nreq, nfail>>

RsHistory(p) ==
    /\ At(p, {"rs_history"})
    /\ LET h == HistoryRow(req[p].cid, RespondAction(req[p].accepted),
                           req[p].user, NoStatus, NoStatus)
       IN /\ history' = Append(history, h)
          /\ Continue(p, [HistoryWritten(req[p], h) EXCEPT
                             !.pc = "rs_notify"])
    /\ UNCHANGED <<cases, notifications, witnessRows, panels, nreq, nfail>>

\* notification for the complainant, then io.emit and the 200
RsNotify(p) ==
    /\ At(p, {"rs_notify"})
    /\ LET list == << <<req[p].caseData.complainantId,
                        "Case Response Received">> >>
       IN /\ notifications' = notifications (+)
                                  NotificationRows(list, req[p].cid)
          /\ Reply(p, Emitted(Notified(req[p], list),
                               << <<req[p].caseData.complainantId,
                                    "CASE_RESPONSE">> >>),
                   200)
    /\ UNCHANGED <<cases, history, witnessRows, panels, nreq, nfail>>

(***************************************************************************)
(* POST /api/cases/:id/witnesses                                           *)
(***************************************************************************)
\* the witnessEmails bodies tried: a registered user, an unregistered
\* address, a registered user twice
WitnessEmailLists ==
    {<<"adm@x">>, <<"zed@x">>, <<"adm@x", "adm@x">>}

\* the status filter left out of the where clause
WitnessWhereAnyStatus(c, u) ==
    cases[c].complainantId = u \/ cases[c].respondentId = u

\* findFirst({ where: { id, OR: [{ complainantId }, { respondentId }],
\*                      status: "ACCEPTED" } })
WitnessWhere(c, u) ==
    /\ cases[c].complainantId = u \/ cases[c].respondentId = u
    /\ cases[c].status = "ACCEPTED"

\* prisma.user.findMany({ where: { email: { in: witnessEmails } } })
UsersByEmails(list) ==
    {UserByEmail(list[i]) : i \in 1..Len(list)} \ {NoUser}

StartWitnesses(p) ==
    /\ Accepts(p)
    /\ \E u \in Users, c \in CaseIds, list \in WitnessEmailLists :
          LET r == [Idle EXCEPT !.op = "witnesses", !.user = u, !.cid = c,
                                !.emails = list]
              witnesses == UsersByEmails(list)
          IN IF ~WitnessWhere(c, u)
             THEN Reject(r, 404)
             ELSE IF Cardinality(witnesses) # Len(list)
             THEN Reject(r, 400)
             ELSE Admit(p, [r EXCEPT !.caseData = CaseData(c),
                                        !.found = SetToSeq(witnesses),
                                        !.pc = "wt_create"])
    /\ UNCHANGED <<store, nfail>>

\* witnessData: one row per user found
WitnessRowsOf(c, list) ==
    {[caseId |-> c, email |-> EmailOf(list[i])] : i \in 1..Len(list)}

\* witness.createMany({ data: witnessData, skipDuplicates: true }).  The
\* rows carry no id, and which columns of Witness are unique is not in the
\* sources: a row equal to one in the table is skipped or written again.
WtCreate(p) ==
    /\ At(p, {"wt_create"})
    /\ LET rows == WitnessRowsOf(req[p].cid, req[p].found)
           fresh == {w \in rows : ~BagIn(w, witnessRows)}
       IN \E added \in {rows, fresh} :
             /\ witnessRows' = witnessRows (+) SetToBag(added)
             /\ Continue(p, [req[p] EXCEPT !.pc = "wt_update",
                                           !.wrote = @ \cup {"witness"},
                                           !.known = rows \ fresh,
                                           !.added = added])
    /\ UNCHANGED <<cases, history, notifications, panels, nreq, nfail>>

WtUpdate(p) ==
    /\ At(p, {"wt_update"})
    /\ cases' = [cases EXCEPT ![req[p].cid].status = "WITNESSES_NOMINATED"]
    /\ Continue(p, [StatusWritten(req[p]) EXCEPT
                       !.pc = "wt_notify"])
    /\ UNCHANGED <<history, notifications, witnessRows, panels, nreq, nfail>>

WtHistory(p) ==
    /\ At(p, {"wt_history"})
    /\ LET h == HistoryRow(req[p].cid, "WITNESSES_ADDED", req[p].user,
                           NoStatus, NoStatus)
       IN /\ history' = Append(history, h)
          /\ Reply(p, HistoryWritten(req[p], h), 200)
    /\ UNCHANGED <<cases, notifications, witnessRows, panels, nreq, nfail>>

(***************************************************************************)
(* PUT /api/admin/cases/:id/status                                         *)
(***************************************************************************)
\* the status bodies tried: the enum and one value outside it
StatusInputs == Statuses \cup {"BOGUS"}

\* body("reason").optional().isLength({ min: 10, max: 500 })
MinReason == 10
MaxReason == 500

\* the reason bodies tried, by their length: none, too short, as required.
\* The reason of a request that is taken up goes into the text of the
\* history entry only and is left out of it.
ReasonInputs ==
    {NoReason, [given |-> TRUE, len |-> 4], [given |-> TRUE, len |-> 24]}

ValidReason(rs) == ~rs.given \/ (rs.len >= MinReason /\ rs.len <= MaxReason)

\* CANCELLED missing from the list of isIn
ValidStatusButCancelled(s) == s \in Statuses \ {"CANCELLED"}

\* body("status").isIn([...])
ValidStatus(s) == s \in Statuses

\* the status of the case after the update taken for the previous one
PreviousStatusOfUpdated(r) == r.status

\* previousStatus: caseData.status
PreviousStatus(r) == r.caseData.status

\* admin status changes written to the history or under way
Overrides ==
    Cardinality({i \in 1..Len(history) :
                    history[i].action = "STATUS_UPDATED_BY_ADMIN"})
        + Cardinality({q \in Procs : req[q].op = "setStatus"})

\* router.use(requireAdmin) answers before the handler reads params or body
StartSetStatus(p) ==
    /\ Accepts(p)
    /\ Overrides < load.overrides
    /\ \E u \in Callers, c \in CaseIds, s \in StatusInputs,
          rs \in ReasonInputs :
          LET r == [Idle EXCEPT !.op = "setStatus", !.user = u, !.cid = c,
                                !.status = s]
          IN IF ~Authenticated(u)
             THEN Reject([Idle EXCEPT !.op = "setStatus", !.user = u], 401)
             ELSE IF ~IsAdmin(u)
             THEN Reject([Idle EXCEPT !.op = "setStatus", !.user = u], 403)
             ELSE IF ~ValidStatus(s) \/ ~ValidReason(rs)
             THEN Reject([r EXCEPT !.reason = rs], 400)
             ELSE Admit(p, [r EXCEPT !.caseData = CaseData(c),
                                        !.pc = "ss_update"])
    /\ UNCHANGED <<store, nfail>>

SsUpdate(p) ==
    /\ At(p, {"ss_update"})
    /\ cases' = [cases EXCEPT ![req[p].cid].status = req[p].status]
    /\ Continue(p, [StatusWritten(req[p]) EXCEPT
                       !.pc = "ss_history"])
    /\ UNCHANGED <<history, notifications, witnessRows, panels, nreq, nfail>>

\* metadata: { adminId, previousStatus: caseData.status, newStatus: status }
SsHistory(p) ==
    /\ At(p, {"ss_history"})
    /\ LET h == HistoryRow(req[p].cid, "STATUS_UPDATED_BY_ADMIN", NoUser,
                           PreviousStatus(req[p]), req[p].status)
       IN /\ history' = Append(history, h)
          /\ Continue(p, [HistoryWritten(req[p], h) EXCEPT
                             !.pc = "ss_notify"])
    /\ UNCHANGED <<cases, notifications, witnessRows, panels, nreq, nfail>>

(***************************************************************************)
(* POST /api/admin/cases/:id/panel                                         *)
(***************************************************************************)
\* the <<lawyerId, religiousScholarId, societyMemberId>> bodies tried; "" is
\* a field left out, "zed" the id of no user
PanelInputs ==
    {<<"adm", "", "">>, <<"adm", "bob", "">>, <<"bob", "bob", "">>,
     <<"zed", "", "">>, <<"", "", "">>}

\* [lawyerId, religiousScholarId, societyMemberId].filter(Boolean)
FilterBoolean(m) == SelectSeq(m, LAMBDA x : x # "")

\* every id taken for that of a user
UsersByIdsUnchecked(ids) == {ids[i] : i \in 1..Len(ids)}

\* prisma.user.findMany({ where: { id: { in: [...] } } })
UsersByIds(ids) == {ids[i] : i \in 1..Len(ids)} \cap Users

\* the check for an existing panel left out
HasPanelNever(caseData) == FALSE

\* if (caseData.mediationPanel)
HasPanel(caseData) == caseData.mediationPanel

StartCreatePanel(p) ==
    /\ Accepts(p)
    /\ \E u \in Callers, c \in CaseIds, m \in PanelInputs :
          LET r == [Idle EXCEPT !.op = "createPanel", !.user = u, !.cid = c,
                                !.members = m]
              caseData == CaseData(c)
              panelMembers == UsersByIds(FilterBoolean(m))
          IN IF ~Authenticated(u)
             THEN Reject([Idle EXCEPT !.op = "createPanel", !.user = u], 401)
             ELSE IF ~IsAdmin(u)
             THEN Reject([Idle EXCEPT !.op = "createPanel", !.user = u], 403)
             ELSE IF m[1] = ""
             THEN Reject(r, 400)
             ELSE IF HasPanel(caseData)
             THEN Reject(r, 409)
             ELSE IF caseData.status \notin {"WITNESSES_NOMINATED", "ACCEPTED"}
             THEN Reject(r, 400)
             ELSE IF Cardinality(panelMembers) # Len(FilterBoolean(m))
             THEN Reject(r, 400)
             ELSE Admit(p, [r EXCEPT !.caseData = caseData,
                                        !.found = SetToSeq(panelMembers),
                                        !.pc = "cp_create"])
    /\ UNCHANGED <<store, nfail>>

\* mediationPanel.create: Case.mediationPanel is one-to-one, so caseId is
\* unique and a second panel for the case throws
CpCreate(p) ==
    /\ At(p, {"cp_create"})
    /\ IF \E m \in panels : m.caseId = req[p].cid
       THEN /\ Reply(p, req[p], 500)
            /\ UNCHANGED panels
       ELSE /\ panels' = panels \cup
                  {[caseId |-> req[p].cid, lawyerId |-> req[p].members[1],
                    religiousScholarId |-> req[p].members[2],
                    societyMemberId |-> req[p].members[3]]}
            /\ Continue(p, [req[p] EXCEPT !.pc = "cp_update",
                                          !.wrote = @ \cup {"panel"}])
    /\ UNCHANGED <<cases, history, notifications, witnessRows, nreq, nfail>>

CpUpdate(p) ==
    /\ At(p, {"cp_update"})
    /\ cases' = [cases EXCEPT ![req[p].cid].status = "PANEL_CREATED"]
    /\ Continue(p, [StatusWritten(req[p]) EXCEPT
                       !.pc = "cp_history"])
    /\ UNCHANGED <<history, notifications, witnessRows, panels, nreq, nfail>>

CpHistory(p) ==
    /\ At(p, {"cp_history"})
    /\ LET h == HistoryRow(req[p].cid, "PANEL_CREATED", NoUser,
                           NoStatus, NoStatus)
       IN /\ history' = Append(history, h)
          /\ Continue(p, [HistoryWritten(req[p], h) EXCEPT
                             !.pc = "cp_notify"])
    /\ UNCHANGED <<cases, notifications, witnessRows, panels, nreq, nfail>>

(***************************************************************************)
(* await Promise.all(notifications): the creates of one handler run        *)
(* together; when one of them throws the others are still written.         *)
(***************************************************************************)
\* the <<user, title>> pairs a handler hands to Promise.all
NotificationList(r) ==
    CASE r.pc = "wt_notify" ->
            [i \in 1..Len(r.found) |-> <<r.found[i], "Added as Witness">>]
      [] r.pc = "ss_notify" ->
            << <<r.caseData.complainantId, "Case Status Updated">> >> \o
            (IF r.caseData.respondentId # NoUser
             THEN << <<r.caseData.respondentId, "Case Status Updated">> >>
             ELSE << >>)
      [] r.pc = "cp_notify" ->
            << <<r.caseData.complainantId, "Mediation Panel Created">> >> \o
            (IF r.caseData.respondentId # NoUser
             THEN << <<r.caseData.respondentId, "Mediation Panel Created">> >>
             ELSE << >>) \o
            [i \in 1..Len(r.found) |->
                <<r.found[i], "Assigned to Mediation Panel">>]
      [] OTHER -> << >>

\* the io.emit calls that follow the notifications
EmitList(r) ==
    IF r.pc = "ss_notify"
    THEN << <<r.caseData.complainantId, "STATUS_UPDATE">> >> \o
         (IF r.caseData.respondentId # NoUser
          THEN << <<r.caseData.respondentId, "STATUS_UPDATE">> >>
          ELSE << >>)
    ELSE << >>

NotifyPcs == {"wt_notify", "ss_notify", "cp_notify"}

NotifyAll(p) ==
    /\ At(p, NotifyPcs)
    /\ LET list == NotificationList(req[p])
           r == Emitted(Notified(req[p], list), EmitList(req[p]))
       IN /\ notifications' = notifications (+)
                                  NotificationRows(list, req[p].cid)
          /\ CASE req[p].pc = "wt_notify" ->
                     Continue(p, [r EXCEPT !.pc = "wt_history"])
               [] req[p].pc = "ss_notify" -> Reply(p, r, 200)
               [] req[p].pc = "cp_notify" -> Reply(p, r, 201)
    /\ UNCHANGED <<cases, history, witnessRows, panels, nreq, nfail>>

(***************************************************************************)
(* The notification routes: PUT /api/notifications/:id/read,               *)
(* PUT /api/notifications/read-all and DELETE /api/notifications/:id.      *)
(***************************************************************************)
\* the users who send the requests
InboxUsers == {"ann", "bob"}

\* Notification.id: the rows POST /api/cases creates for a case differ in
\* their user and title
NotificationId(n) ==
    [userId |-> n.userId, caseId |-> n.caseId, title |-> n.title]

\* the ids tried: those of the two rows a new case brings
NotificationIds ==
    {[userId |-> "ann", caseId |-> 1,
      title |-> "Case Registered Successfully"],
     [userId |-> "bob", caseId |-> 1,
      title |-> "New Case Filed Against You"]}

\* the rows of table B with id k
RowsById(B, k) == {n \in BagToSet(B) : NotificationId(n) = k}

\* table B with one row n replaced by m
Replaced(B, n, m) == (B (-) SetToBag({n})) (+) SetToBag({m})

MarkedReadToggled(n) == [n EXCEPT !.isRead = ~@]

\* the owner left out of the where clause
FindFirstOfAnyone(B, k, u) == RowsById(B, k)

\* notification.findFirst({ where: { id, userId: req.user.id } })
FindFirst(B, k, u) == {n \in RowsById(B, k) : n.userId = u}

\* data: { isRead: true }
MarkedRead(n) == [n EXCEPT !.isRead = TRUE]

\* the lookup of PUT /:id/read, 404 when it finds nothing
StartMarkRead(p) ==
    /\ Accepts(p)
    /\ \E u \in InboxUsers, k \in NotificationIds :
          LET r == [Idle EXCEPT !.op = "markRead", !.user = u, !.nid = k]
          IN IF FindFirst(notifications, k, u) # {}
             THEN Admit(p, [r EXCEPT !.pc = "mr_update"])
             ELSE Reject(r, 404)
    /\ UNCHANGED <<store, nfail>>

\* notification.update({ where: { id }, data: { isRead: true } }); it
\* throws when the row is gone
MrUpdate(p) ==
    /\ At(p, {"mr_update"})
    /\ LET rows == RowsById(notifications, req[p].nid)
       IN IF rows = {}
          THEN /\ notifications' = notifications
               /\ Reply(p, req[p], 500)
          ELSE \E n \in rows :
                  /\ notifications' =
                        Replaced(notifications, n, MarkedRead(n))
                  /\ Reply(p, [req[p] EXCEPT !.wasRead = n.isRead,
                                   !.wrote = @ \cup {"notification"}], 200)
    /\ UNCHANGED <<cases, history, witnessRows, panels, nreq, nfail>>

\* table B after updateMany set isRead on the rows in S
RECURSIVE ReadMany(_, _)
ReadMany(B, S) ==
    IF S = {} THEN B
    ELSE LET n == CHOOSE x \in S : TRUE
             k == CopiesIn(n, B)
         IN ReadMany((B (-) [x \in {n} |-> k])
                        (+) [x \in {[n EXCEPT !.isRead = TRUE]} |-> k],
                     S \ {n})

\* notification.updateMany({ where: { userId, isRead: false },
\* data: { isRead: true } }) and the answer
ReadAll(p) ==
    /\ Accepts(p)
    /\ \E u \in InboxUsers :
          /\ notifications' =
                ReadMany(notifications,
                         {n \in BagToSet(notifications) :
                             n.userId = u /\ ~n.isRead})
          /\ last' = [Idle EXCEPT !.op = "readAll", !.user = u,
                                  !.pc = "done", !.res = 200,
                                  !.wrote = {"notification"}]
    /\ nreq' = nreq + 1
    /\ UNCHANGED <<cases, history, witnessRows, panels, nfail, req, load>>

\* the lookup of DELETE /:id, 404 when it finds nothing
StartDelete(p) ==
    /\ Accepts(p)
    /\ \E u \in InboxUsers, k \in NotificationIds :
          LET r == [Idle EXCEPT !.op = "delete", !.user = u, !.nid = k]
          IN IF FindFirst(notifications, k, u) # {}
             THEN Admit(p, [r EXCEPT !.pc = "dl_delete"])
             ELSE Reject(r, 404)
    /\ UNCHANGED <<store, nfail>>

\* notification.delete({ where: { id } }); it throws when the row is gone
DlDelete(p) ==
    /\ At(p, {"dl_delete"})
    /\ LET rows == RowsById(notifications, req[p].nid)
       IN IF rows = {}
          THEN /\ notifications' = notifications
               /\ Reply(p, req[p], 500)
          ELSE \E n \in rows :
                  /\ notifications' = notifications (-) SetToBag({n})
                  /\ Reply(p, [req[p] EXCEPT !.wasRead = n.isRead,
                                   !.wrote = @ \cup {"notification"}], 200)
    /\ UNCHANGED <<cases, history, witnessRows, panels, nreq, nfail>>

\* the sub-sequence of s at the indices in S
RECURSIVE Pick(_, _)
Pick(s, S) ==
    IF s = << >> THEN << >>
    ELSE Pick(SubSeq(s, 1, Len(s) - 1), S) \o
         (IF Len(s) \in S THEN <<s[Len(s)]>> ELSE << >>)

\* one create of the Promise.all throws: some of the others, not all, are in
NotifyPartlyFails(p) ==
    /\ At(p, NotifyPcs)
    /\ nfail < load.failures
    /\ LET list == NotificationList(req[p]) IN
       \E S \in SUBSET (1..Len(list)) :
          /\ S # {} /\ S # 1..Len(list)
          /\ notifications' = notifications (+)
                                  NotificationRows(Pick(list, S), req[p].cid)
          /\ Reply(p, Notified(req[p], Pick(list, S)), 500)
    /\ nfail' = nfail + 1
    /\ UNCHANGED <<cases, history, witnessRows, panels, nreq>>

(***************************************************************************)
(* A persistence write throws before it wrote anything: the catch block    *)
(* answers 500 and what the handler wrote before stays.                    *)
(***************************************************************************)
WritePcs ==
    {"cc_create", "cc_history", "cc_notify1", "cc_notify2", "cc_update",
     "rs_update", "rs_history", "rs_notify",
     "wt_create", "wt_update", "wt_notify", "wt_history",
     "ss_update", "ss_history", "ss_notify",
     "cp_create", "cp_update", "cp_history", "cp_notify"}

WriteFails(p) ==
    /\ At(p, WritePcs)
    /\ nfail < load.failures
    /\ Reply(p, req[p], 500)
    /\ nfail' = nfail + 1
    /\ UNCHANGED <<store, nreq>>

(***************************************************************************)
(* An io.emit throws after the handler's writes: it stands in the try      *)
(* block of the handler, so the catch block answers 500.                   *)
(***************************************************************************)
EmitPcs == {"cc_update", "rs_notify", "ss_notify"}

PushFails(p) ==
    /\ At(p, EmitPcs)
    /\ nfail < load.failures
    /\ CASE req[p].pc = "cc_update" ->
              /\ cases' = [cases EXCEPT
                              ![req[p].cid].status = "AWAITING_RESPONSE"]
              /\ Reply(p, [StatusWritten(req[p]) EXCEPT !.thrown = "emit"],
                       500)
              /\ UNCHANGED notifications
         [] req[p].pc = "rs_notify" ->
              LET list == << <<req[p].caseData.complainantId,
                               "Case Response Received">> >>
              IN /\ notifications' = notifications (+)
                                         NotificationRows(list, req[p].cid)
                 /\ Reply(p, [Notified(req[p], list) EXCEPT
                                 !.thrown = "emit"], 500)
                 /\ UNCHANGED cases
         [] req[p].pc = "ss_notify" ->
              LET list == NotificationList(req[p])
                  emits == EmitList(req[p])
              IN /\ notifications' = notifications (+)
                                         NotificationRows(list, req[p].cid)
                 /\ \E k \in 0..(Len(emits) - 1) :
                       Reply(p, [Emitted(Notified(req[p], list),
                                         SubSeq(emits, 1, k))
                                    EXCEPT !.thrown = "emit"], 500)
                 /\ UNCHANGED cases
    /\ nfail' = nfail + 1
    /\ UNCHANGED <<history, witnessRows, panels, nreq>>

(***************************************************************************)
(* The answer of the last step is on its way: last only shows the request  *)
(* in the state in which it is answered.                                   *)
(***************************************************************************)
Answered ==
    /\ ~Quiet
    /\ last' = Idle
    /\ UNCHANGED <<store, nreq, nfail, req, load>>

(***************************************************************************)
(* Specifications.                                                         *)
(***************************************************************************)
CreateCase(p) ==
    \/ StartCreateCase(p)
    \/ CcCreate(p)
    \/ CcHistory(p)
    \/ CcNotifyComplainant(p)
    \/ CcNotifyRespondent(p)
    \/ CcUpdate(p)

RespondToCase(p) ==
    \/ StartRespond(p)
    \/ RsUpdate(p)
    \/ RsHistory(p)
    \/ RsNotify(p)

NominateWitnesses(p) ==
    \/ StartWitnesses(p)
    \/ WtCreate(p)
    \/ WtUpdate(p)
    \/ WtHistory(p)

SetStatus(p) ==
    \/ StartSetStatus(p)
    \/ SsUpdate(p)
    \/ SsHistory(p)

CreatePanel(p) ==
    \/ StartCreatePanel(p)
    \/ CpCreate(p)
    \/ CpUpdate(p)
    \/ CpHistory(p)

Next ==
    \/ \E p \in Procs :
          \/ CreateCase(p)
          \/ RespondToCase(p)
          \/ NominateWitnesses(p)
          \/ SetStatus(p)
          \/ CreatePanel(p)
          \/ NotifyAll(p)
          \/ NotifyPartlyFails(p)
          \/ WriteFails(p)
    \/ Answered

Spec == Init /\ [][Next]_vars

\* the server when the requests are served in turn and no write throws
InitSeq ==
    InitWith([requests |-> MaxSeqRequests, overrides |-> MaxOverrides,
              failures |-> 0,
              cases |-> MaxCases, emails |-> CreateCaseEmails])

NextSeq ==
    \/ CreateCase(1)
    \/ RespondToCase(1)
    \/ NominateWitnesses(1)
    \/ SetStatus(1)
    \/ CreatePanel(1)
    \/ NotifyAll(1)
    \/ Answered

SpecSeq == InitSeq /\ [][NextSeq]_vars

\* the server when cases are filed and only the admin changes their status,
\* and no write throws
InitAdmin ==
    InitWith([requests |-> MaxRequests, overrides |-> MaxAdminOverrides,
              failures |-> 0,
              cases |-> MaxCases, emails |-> CreateCaseEmails])

NextAdmin ==
    \/ \E p \in Procs :
          \/ CreateCase(p)
          \/ SetStatus(p)
          \/ NotifyAll(p)
    \/ Answered

SpecAdmin == InitAdmin /\ [][NextAdmin]_vars

\* the server when cases are filed and their notifications are read and
\* deleted, and no write throws
MarkRead(p) == StartMarkRead(p) \/ MrUpdate(p)

DeleteNotification(p) == StartDelete(p) \/ DlDelete(p)

InitInbox ==
    InitWith([requests |-> MaxInboxRequests, overrides |-> 0, failures |-> 0,
              cases |-> MaxCases, emails |-> CreateCaseEmails])

NextInbox ==
    \/ \E p \in Procs :
          \/ CreateCase(p)
          \/ MarkRead(p)
          \/ ReadAll(p)
          \/ DeleteNotification(p)
    \/ Answered

SpecInbox == InitInbox /\ [][NextInbox]_vars

\* the server when the requests that push are served in turn and a push
\* may throw
InitPush ==
    InitWith([requests |-> MaxRequests, overrides |-> MaxOverrides,
              failures |-> MaxFailures,
              cases |-> MaxCases, emails |-> CreateCaseEmails])

NextPush ==
    \/ CreateCase(1)
    \/ RespondToCase(1)
    \/ SetStatus(1)
    \/ NotifyAll(1)
    \/ PushFails(1)
    \/ Answered

SpecPush == InitPush /\ [][NextPush]_vars

\* the server with two cases and no write that throws
InitCases ==
    InitWith([requests |-> MaxTwoRequests, overrides |-> MaxOverrides,
              failures |-> 0, cases |-> MaxTwoCases,
              emails |-> CreateCaseEmails])

NextCases ==
    \/ \E p \in Procs :
          \/ CreateCase(p)
          \/ RespondToCase(p)
          \/ NominateWitnesses(p)
          \/ SetStatus(p)
          \/ CreatePanel(p)
          \/ NotifyAll(p)
    \/ Answered

SpecCases == InitCases /\ [][NextCases]_vars

\* the server when the requests are served in turn, the admin sets no
\* status and no write throws
InitFlow ==
    InitWith([requests |-> MaxSeqRequests, overrides |-> 0, failures |-> 0,
              cases |-> MaxCases, emails |-> CreateCaseEmails])

NextFlow ==
    \/ CreateCase(1)
    \/ RespondToCase(1)
    \/ NominateWitnesses(1)
    \/ CreatePanel(1)
    \/ NotifyAll(1)
    \/ Answered

SpecFlow == InitFlow /\ [][NextFlow]_vars

\* the server when a case is filed against the complainant's own address
\* and responded to, and no write throws
InitSelf ==
    InitWith([requests |-> MaxRequests, overrides |-> 0, failures |-> 0,
              cases |-> MaxCases, emails |-> OwnEmails])

NextSelf ==
    \/ \E p \in Procs :
          \/ CreateCase(p)
          \/ RespondToCase(p)
    \/ Answered

SpecSelf == InitSelf /\ [][NextSelf]_vars

\* the server when only cases are filed and responded to, and no write throws
NextRespond ==
    \/ \E p \in Procs :
          \/ CreateCase(p)
          \/ RespondToCase(p)
    \/ Answered

SpecRespond == Init /\ [][NextRespond]_vars

(***************************************************************************)
(* Properties.  last is the request answered in the step just taken.       *)
(***************************************************************************)
\* the answer of a request that went through
Succeeded(r) == r.pc = "done" /\ r.res \in {200, 201}

\* the answer of a request whose catch block ran
Failed(r) == r.pc = "done" /\ r.res = 500

\* the slot whose request took this step
Acts(p) == req'[p] # req[p]

\* this step takes a request into slot p
Arrives(p) == req[p].pc = "idle" /\ req'[p].pc # "idle"

\* this step answers a request by its first check
Rejects == last'.pc = "done" /\ req' = req

\* the Notification rows of user u for case c with this title, read or not
NotificationsFor(u, c, title) ==
    CopiesIn(NotificationRow(u, c, title), notifications)
        + CopiesIn([NotificationRow(u, c, title) EXCEPT !.isRead = TRUE],
                   notifications)

\* the rows of CaseHistory of case c with an action in kinds
HistoryOf(c, kinds) ==
    {i \in 1..Len(history) :
        history[i].caseId = c /\ history[i].action \in kinds}

Terminal == {"RESOLVED", "UNRESOLVED", "CANCELLED"}

\* the transition table: operation op takes a case from status from to to
TableEdge(op, from, to) ==
    \/ op = "createCase" /\ from = "PENDING" /\ to = "AWAITING_RESPONSE"
    \/ op = "respond" /\ from = "AWAITING_RESPONSE"
                      /\ to \in {"ACCEPTED", "UNRESOLVED"}
    \/ op = "witnesses" /\ from = "ACCEPTED" /\ to = "WITNESSES_NOMINATED"
    \/ op = "createPanel" /\ from \in {"ACCEPTED", "WITNESSES_NOMINATED"}
                          /\ to = "PANEL_CREATED"
    \/ op = "setStatus"

\* C1: every case's status is one of the nine enum values, a new case
\* starts PENDING, and every change of a case's status is an edge of the
\* transition table taken by the operation that wrote it, or an admin
\* setStatus.
C1_StatusEnumAndEdges ==
    [][/\ \A c \in 1..Len(cases') : cases'[c].status \in Statuses
       /\ \A c \in (1..Len(cases')) \ CaseIds : cases'[c].status = "PENDING"
       /\ \A c \in CaseIds :
             cases'[c].status # cases[c].status =>
                \E p \in Procs :
                   /\ Acts(p)
                   /\ req[p].cid = c
                   /\ TableEdge(req[p].op, cases[c].status,
                                cases'[c].status)]_vars

C3_FailureLeavesNoWrite ==
    Failed(last) => last.wrote = {}

\* C4: of the respondToCase calls on one AWAITING_RESPONSE case a single one
\* succeeds: the case has at most one response entry in its history and one
\* response notification, and status and respondentAccepted are those of
\* the call that was answered with success.
C4_OneResponseWins ==
    \A c \in CaseIds :
        /\ Cardinality(HistoryOf(c, {"CASE_ACCEPTED", "CASE_REJECTED"})) <= 1
        /\ NotificationsFor(cases[c].complainantId, c,
                            "Case Response Received") <= 1
        /\ (Succeeded(last) /\ last.op = "respond" /\ last.cid = c) =>
              /\ cases[c].status =
                    (IF last.accepted THEN "ACCEPTED" ELSE "UNRESOLVED")
              /\ cases[c].respondentAccepted =
                    (IF last.accepted THEN "true" ELSE "false")

\* C5: the status check and the status write of an operation are one atomic
\* step: the status a successful operation overwrote is the one its check
\* requires (createCase's follow-up write finds the PENDING it created).
C5_CheckAndWriteAtomic ==
    (Succeeded(last) /\ last.pre # NoStatus) =>
        CASE last.op = "createCase" -> last.pre = "PENDING"
          [] last.op = "respond" -> last.pre = "AWAITING_RESPONSE"
          [] last.op = "witnesses" -> last.pre = "ACCEPTED"
          [] last.op = "createPanel" ->
                last.pre \in {"ACCEPTED", "WITNESSES_NOMINATED"}
          [] OTHER -> TRUE

\* C6: on a case whose status is RESOLVED, UNRESOLVED or CANCELLED no
\* respondToCase, nominateWitnesses or createPanel is taken up, and only an
\* admin setStatus changes the case row.
C6_TerminalOnlyAdminChanges ==
    [][\A c \in CaseIds :
          cases[c].status \in Terminal =>
             /\ \A p \in Procs :
                   (Arrives(p) /\ req'[p].cid = c) =>
                      req'[p].op \notin {"respond", "witnesses",
                                         "createPanel"}
             /\ cases'[c] # cases[c] =>
                   \E p \in Procs : /\ Acts(p)
                                    /\ req[p].cid = c
                                    /\ req[p].op = "setStatus"]_vars

\* the action a history entry carries for each operation
HistoryKind(r) ==
    CASE r.op = "createCase" -> "CASE_CREATED"
      [] r.op = "respond" ->
            (IF r.accepted THEN "CASE_ACCEPTED" ELSE "CASE_REJECTED")
      [] r.op = "witnesses" -> "WITNESSES_ADDED"
      [] r.op = "createPanel" -> "PANEL_CREATED"
      [] r.op = "setStatus" -> "STATUS_UPDATED_BY_ADMIN"

C8_RespondOutcome ==
    (Succeeded(last) /\ last.op = "respond") =>
        LET c == last.cid
        IN /\ last.user = cases[c].respondentId
           /\ last.caseData.status = "AWAITING_RESPONSE"
           /\ last.post = (IF last.accepted THEN "ACCEPTED" ELSE "UNRESOLVED")
           /\ last.notified =
                << <<cases[c].complainantId, "Case Response Received">> >>
           /\ NotificationsFor(cases[c].complainantId, c,
                               "Case Response Received") >= 1

\* the respondent turned the case down
C8_Witness ==
    /\ Succeeded(last)
    /\ last.op = "respond"
    /\ ~last.accepted
    /\ last.post = "UNRESOLVED"

\* the answer of a request turned down with a client error
Rejected(r) == r.pc = "done" /\ r.res \in 400..499

Unregistered(list) ==
    {i \in 1..Len(list) : \A u \in Users : EmailOf(u) # list[i]}

\* no identity is given twice
Distinct(list) ==
    \A i, j \in 1..Len(list) : list[i] = list[j] => i = j

\* C11: a nominateWitnesses by a party of an ACCEPTED case, naming each
\* identity once, fails with VALIDATION (400) when an identity is no
\* registered user and with CONFLICT (409) when all are registered and one
\* is a witness of the case already; when it succeeds, all identities are
\* registered, none was a witness of the case and the status becomes
\* WITNESSES_NOMINATED.
C11_WitnessValidationAndConflict ==
    (last.pc = "done" /\ last.op = "witnesses" /\ Distinct(last.emails)) =>
        /\ Succeeded(last) =>
              /\ Unregistered(last.emails) = {}
              /\ last.known = {}
              /\ last.post = "WITNESSES_NOMINATED"
        /\ (/\ Rejected(last)
            /\ cases[last.cid].status = "ACCEPTED"
            /\ last.user \in {cases[last.cid].complainantId,
                              cases[last.cid].respondentId}) =>
              IF Unregistered(last.emails) # {}
              THEN last.res = 400
              ELSE last.res = 409

\* the mediation panels of case c
PanelsOf(c) == {m \in panels : m.caseId = c}

\* C12: a case never has more than one mediation panel.  A createPanel by
\* an admin, naming a lawyer, on a case that has a panel is answered 409
\* (conflict); no createPanel is taken up on such a case, and the one turned
\* down leaves panels, cases, history and notifications unchanged.
C12_OnePanelPerCase ==
    [][/\ \A c \in 1..Len(cases') :
             Cardinality({m \in panels' : m.caseId = c}) <= 1
       /\ \A p \in Procs :
             (Arrives(p) /\ req'[p].op = "createPanel") =>
                PanelsOf(req'[p].cid) = {}
       /\ (Rejects /\ last'.op = "createPanel") =>
             /\ store' = store
             /\ (/\ Role(last'.user) = "ADMIN"
                 /\ last'.members[1] # ""
                 /\ PanelsOf(last'.cid) # {}) => last'.res = 409]_vars

\* the admin asks for a second panel on a case that has one
C12_Witness ==
    /\ Rejected(last)
    /\ last.op = "createPanel"
    /\ last.res = 409
    /\ Cardinality(PanelsOf(last.cid)) = 1
    /\ cases[last.cid].status = "PANEL_CREATED"

\* the member ids given in a createPanel body, in order
Given(m) == SelectSeq(m, LAMBDA x : x # "")

\* what a createPanel needs: an admin, a case that is ACCEPTED or
\* WITNESSES_NOMINATED and has no panel, a lawyer, and member ids that are
\* pairwise distinct and those of users
PanelAllowed(u, c, m) ==
    /\ Role(u) = "ADMIN"
    /\ m[1] # ""
    /\ PanelsOf(c) = {}
    /\ cases[c].status \in {"ACCEPTED", "WITNESSES_NOMINATED"}
    /\ Distinct(Given(m))
    /\ \A i \in 1..Len(Given(m)) : Given(m)[i] \in Users

\* C13: a createPanel is taken up only when the case is found ACCEPTED or
\* WITNESSES_NOMINATED, the lawyer is given and the given member ids are
\* pairwise distinct ids of users, and then it is not turned down; when it
\* succeeds it has created the panel and written the status PANEL_CREATED;
\* one that is turned down creates no panel and leaves the status as it is.
C13_PanelOnlyWhenAllowed ==
    [][/\ \A p \in Procs :
             (Arrives(p) /\ req'[p].op = "createPanel") =>
                PanelAllowed(req'[p].user, req'[p].cid, req'[p].members)
       /\ (Rejects /\ last'.op = "createPanel") =>
             /\ panels' = panels /\ cases' = cases
             /\ Role(last'.user) = "ADMIN" =>
                   ~PanelAllowed(last'.user, last'.cid, last'.members)
       /\ (Succeeded(last') /\ last'.op = "createPanel") =>
             /\ last'.post = "PANEL_CREATED"
             /\ "panel" \in last'.wrote
             /\ \E m \in panels' :
                   /\ m.caseId = last'.cid
                   /\ m.lawyerId = last'.members[1]]_vars

\* a panel of two members was created for a case
C13_Witness ==
    /\ Succeeded(last)
    /\ last.op = "createPanel"
    /\ last.members = <<"adm", "bob", "">>
    /\ last.post = "PANEL_CREATED"
    /\ PanelsOf(last.cid) # {}

\* C14 as stated: a successful admin setStatus recorded one history entry
\* whose action is "ADMIN_OVERRIDE" and which holds the old and the new
\* status.
C14_AdminOverrideEntry ==
    (Succeeded(last) /\ last.op = "setStatus") =>
        /\ Len(last.hist) = 1
        /\ last.hist[1].action = "ADMIN_OVERRIDE"
        /\ last.hist[1].previousStatus = last.caseData.status
        /\ last.hist[1].newStatus = last.status

\* C14, amended: a successful admin setStatus, from any status to any enum
\* target, recorded exactly one history entry, which is in the case's
\* history; its action is "STATUS_UPDATED_BY_ADMIN", it names no performer,
\* and it holds the status the handler read when the request arrived and
\* the new status.
C14_StatusUpdatedByAdminEntry ==
    (Succeeded(last) /\ last.op = "setStatus") =>
        /\ last.hist =
              <<[caseId |-> last.cid, action |-> "STATUS_UPDATED_BY_ADMIN",
                 performedById |-> NoUser,
                 previousStatus |-> last.caseData.status,
                 newStatus |-> last.status]>>
        /\ \E i \in HistoryOf(last.cid, {"STATUS_UPDATED_BY_ADMIN"}) :
              history[i] = last.hist[1]
        /\ HistoryOf(last.cid, {"ADMIN_OVERRIDE"}) = {}

\* the admin resolved a PENDING case
C14_Witness ==
    /\ Succeeded(last)
    /\ last.op = "setStatus"
    /\ last.pre = "PENDING"
    /\ last.hist[1].previousStatus = "PENDING"
    /\ last.hist[1].newStatus = "RESOLVED"
    /\ cases[last.cid].status = "RESOLVED"

C16_MediationNeedsPanel ==
    [][\A c \in CaseIds :
          (/\ cases[c].status = "PANEL_CREATED"
           /\ cases'[c].status = "MEDIATION_IN_PROGRESS") =>
             PanelsOf(c) # {}]_vars

\* the status a history entry stands for: the new status it stores or, for
\* an entry that stores none, the status its operation writes
StatusOfEntry(h) ==
    CASE h.newStatus # NoStatus -> h.newStatus
      [] h.action = "CASE_CREATED" -> "PENDING"
      [] h.action = "CASE_ACCEPTED" -> "ACCEPTED"
      [] h.action = "CASE_REJECTED" -> "UNRESOLVED"
      [] h.action = "WITNESSES_ADDED" -> "WITNESSES_NOMINATED"
      [] h.action = "PANEL_CREATED" -> "PANEL_CREATED"
      [] OTHER -> NoStatus

\* the status reached from s by the entries of case c among rows, in order
RECURSIVE Replay(_, _, _)
Replay(rows, c, s) ==
    IF rows = << >> THEN s
    ELSE Replay(Tail(rows), c,
                IF Head(rows).caseId = c THEN StatusOfEntry(Head(rows))
                ELSE s)

\* C17: when no request is being served, replaying a case's history from
\* PENDING gives the case's status.
C17_ReplayGivesStatus ==
    (\A p \in Procs : req[p].pc = "idle") =>
        \A c \in CaseIds : Replay(history, c, "PENDING") = cases[c].status

\* the users a request created notifications for
Recipients(r) == {r.notified[i][1] : i \in 1..Len(r.notified)}

\* C18: a successful operation created one notification per recipient, and
\* the recipients of createPanel are the complainant, the linked respondent
\* and the panel members.
C18_OneNotificationPerRecipient ==
    Succeeded(last) =>
        /\ Len(last.notified) = Cardinality(Recipients(last))
        /\ last.op = "createPanel" =>
              Recipients(last) =
                 ({last.caseData.complainantId, last.caseData.respondentId}
                     \cup {last.members[i] : i \in 1..Len(last.members)})
                    \ {NoUser, ""}

\* C19: a successful nomination created one notification for each witness
\* row it created, and none for a user who was a witness of the case before.
C19_NotifiesNewWitnessesOnly ==
    (Succeeded(last) /\ last.op = "witnesses") =>
        /\ Len(last.notified) = Cardinality(last.added)
        /\ Recipients(last) = {UserByEmail(w.email) : w \in last.added}
        /\ \A w \in last.known : UserByEmail(w.email) \notin Recipients(last)

\* C20: a notification that is read is never unread again: in every step
\* it stays read or is deleted; marking a read notification answers 200 and
\* changes nothing; after a successful markRead the notification is read,
\* and after read-all all notifications of the user are.
C20_ReadFlagOnlyRises ==
    [][/\ \A k \in NotificationIds :
             (\E n \in RowsById(notifications, k) : n.isRead) =>
                \A n \in RowsById(notifications', k) : n.isRead
       /\ \A p \in Procs :
             (/\ Acts(p)
              /\ req[p].pc = "mr_update"
              /\ \E n \in RowsById(notifications, req[p].nid) : n.isRead) =>
                /\ last'.res = 200
                /\ notifications' = notifications
       /\ (last'.pc = "done" /\ last'.op = "markRead" /\ last'.res = 200) =>
             /\ RowsById(notifications', last'.nid) # {}
             /\ \A n \in RowsById(notifications', last'.nid) : n.isRead
       /\ (last'.pc = "done" /\ last'.op = "readAll") =>
             \A n \in BagToSet(notifications') :
                n.userId = last'.user => n.isRead]_vars

\* a notification that was read already was marked as read once more
C20_Witness ==
    /\ Succeeded(last)
    /\ last.op = "markRead"
    /\ last.wasRead
    /\ \E n \in RowsById(notifications, last.nid) : n.isRead

\* the rows of table B that belong to user u, with their numbers
RowsOfUser(B, u) ==
    [n \in {m \in BagToSet(B) : m.userId = u} |-> CopiesIn(n, B)]

\* C21: markRead and delete are taken up only from the recipient of the
\* notification; from another user they are answered 404 and nothing
\* changes; a step that changes or removes rows of a user is a step of that
\* user's markRead, delete or read-all, and any other step only adds rows.
C21_OnlyRecipientChanges ==
    [][/\ \A p \in Procs :
             (Arrives(p) /\ req'[p].op \in {"markRead", "delete"}) =>
                req'[p].user = req'[p].nid.userId
       /\ (/\ Rejects
           /\ last'.op \in {"markRead", "delete"}
           /\ last'.user # last'.nid.userId) =>
             /\ last'.res = 404
             /\ store' = store
       /\ \A u \in Users :
             RowsOfUser(notifications', u) # RowsOfUser(notifications, u) =>
                \/ \E p \in Procs :
                      /\ Acts(p)
                      /\ req[p].op \in {"markRead", "delete"}
                      /\ req[p].user = u
                      /\ req[p].nid.userId = u
                \/ last'.op = "readAll" /\ last'.user = u
                \/ \A n \in BagToSet(notifications) :
                      CopiesIn(n, notifications')
                         >= CopiesIn(n, notifications)]_vars

\* bob asked to delete ann's notification, which exists, and got 404
C21_Witness ==
    /\ Rejected(last)
    /\ last.op = "delete"
    /\ last.user = "bob"
    /\ last.nid.userId = "ann"
    /\ RowsById(notifications, last.nid) # {}
    /\ last.res = 404

\* C22: a request whose push threw after its writes is answered with
\* success.
C22_PushFailureSwallowed ==
    (last.pc = "done" /\ last.thrown = "emit"
        /\ last.op \in {"createCase", "respond", "setStatus"}) =>
        Succeeded(last)

\* the users a request pushed to
Pushed(r) == {r.emitted[i][1] : i \in 1..Len(r.emitted)}

\* C23: a successful operation pushed to exactly the users it created
\* notifications for.
C23_PushPerNotifiedUser ==
    Succeeded(last) => Pushed(last) = Recipients(last)

AdminOps == {"setStatus", "createPanel"}

\* C24: setStatus and createPanel are taken up only from the admin; from a
\* user who is not an admin they are answered 403 and from someone without
\* a valid token 401, in both cases before the case is read and with no
\* change of cases, panels, history, notifications or witnesses.
C24_AdminRoutesGuarded ==
    [][/\ \A p \in Procs :
             (Arrives(p) /\ req'[p].op \in AdminOps) => req'[p].user = "adm"
       /\ \A p \in Procs :
             (Acts(p) /\ req[p].op \in AdminOps) => req[p].user = "adm"
       /\ (last'.pc = "done" /\ last'.op \in AdminOps
                             /\ last'.user # "adm") =>
             /\ Rejects
             /\ last'.res = IF last'.user \in {"ann", "bob"} THEN 403 ELSE 401
             /\ last'.caseData = NoCaseData
             /\ last'.wrote = {}
             /\ store' = store]_vars

\* bob, not an admin, asked for a panel on an ACCEPTED case and got 403
C24_Witness ==
    /\ Rejected(last)
    /\ last.op = "createPanel"
    /\ last.user = "bob"
    /\ last.res = 403
    /\ \E c \in CaseIds : cases[c].status = "ACCEPTED" /\ PanelsOf(c) = {}

\* C25: in every step the cases there are keep their case number and
\* their complainant and no case goes away; a new case has a case number
\* and its creator as complainant; no two cases have the same case number.
C25_CaseNumberOnceAndUnique ==
    [][/\ Len(cases') >= Len(cases)
       /\ \A c \in 1..Len(cases) :
             /\ cases'[c].caseNumber = cases[c].caseNumber
             /\ cases'[c].complainantId = cases[c].complainantId
       /\ \A c \in 1..Len(cases') :
             /\ cases'[c].caseNumber \in Nat \ {0}
             /\ cases'[c].complainantId \in Users
       /\ \A c \in (Len(cases) + 1)..Len(cases') :
             \E p \in Procs :
                /\ req[p].op = "createCase"
                /\ Acts(p)
                /\ cases'[c].complainantId = req[p].user
       /\ \A c, d \in 1..Len(cases') :
             c # d => cases'[c].caseNumber # cases'[d].caseNumber]_vars

\* there are two cases, and the admin has changed the status of one
C25_Witness ==
    /\ Len(cases) = 2
    /\ cases[1].caseNumber # cases[2].caseNumber
    /\ Succeeded(last)
    /\ last.op = "setStatus"

\* C26: no step changes the respondent of a case, and a new case has the
\* respondent its createCase looked up; for a case without a respondent no
\* respond request is taken up, and a step that takes its status away from
\* PENDING or to AWAITING_RESPONSE is a step of an admin setStatus.
C26_RespondentOnlyFromCreateCase ==
    [][/\ \A c \in 1..Len(cases) :
             cases'[c].respondentId = cases[c].respondentId
       /\ \A c \in (Len(cases) + 1)..Len(cases') :
             \E p \in Procs :
                /\ Acts(p)
                /\ req[p].op = "createCase"
                /\ cases'[c].respondentId = req[p].respondentId
       /\ \A p \in Procs :
             (Arrives(p) /\ req'[p].op = "respond") =>
                cases[req'[p].cid].respondentId # NoUser
       /\ \A c \in 1..Len(cases) :
             (/\ cases[c].respondentId = NoUser
              /\ cases'[c].status # cases[c].status
              /\ \/ cases[c].status = "PENDING"
                 \/ cases'[c].status = "AWAITING_RESPONSE") =>
                \E p \in Procs :
                   /\ Acts(p)
                   /\ req[p].op = "setStatus"
                   /\ req[p].cid = c]_vars

\* the witness rows of case c
WitnessesOf(c) == {w \in BagToSet(witnessRows) : w.caseId = c}

\* C27: when no request is being served, a case has a panel exactly when
\* its status is PANEL_CREATED, and it has witnesses only when its status
\* is WITNESSES_NOMINATED or PANEL_CREATED.
C27_PanelAndWitnessesFollowStatus ==
    (\A p \in Procs : req[p].pc = "idle") =>
        \A c \in CaseIds :
           /\ PanelsOf(c) # {} <=> cases[c].status = "PANEL_CREATED"
           /\ WitnessesOf(c) # {} =>
                 cases[c].status \in {"WITNESSES_NOMINATED", "PANEL_CREATED"}

\* a case with a witness got its panel
C27_Witness ==
    /\ Succeeded(last)
    /\ last.op = "createPanel"
    /\ \A p \in Procs : req[p].pc = "idle"
    /\ PanelsOf(last.cid) # {}
    /\ WitnessesOf(last.cid) # {}
    /\ cases[last.cid].status = "PANEL_CREATED"

\* the place of a status on the way of a case
Rank(s) ==
    CASE s = "PENDING" -> 1
      [] s = "AWAITING_RESPONSE" -> 2
      [] s = "ACCEPTED" -> 3
      [] s = "WITNESSES_NOMINATED" -> 4
      [] s = "PANEL_CREATED" -> 5
      [] OTHER -> 0

\* C28: a step that changes a case's status takes it forward on PENDING <
\* AWAITING_RESPONSE < ACCEPTED < WITNESSES_NOMINATED < PANEL_CREATED or
\* from AWAITING_RESPONSE to UNRESOLVED; no request is taken up for a case
\* that is PANEL_CREATED or UNRESOLVED and no step changes such a case; a
\* case has at most one response entry and one witnesses entry in its
\* history.
C28_StatusOnlyAdvances ==
    [][/\ \A c \in 1..Len(cases) :
             /\ cases'[c].status # cases[c].status =>
                   \/ /\ Rank(cases[c].status) > 0
                      /\ Rank(cases'[c].status) > Rank(cases[c].status)
                   \/ /\ cases[c].status = "AWAITING_RESPONSE"
                      /\ cases'[c].status = "UNRESOLVED"
             /\ cases[c].status \in {"PANEL_CREATED", "UNRESOLVED"} =>
                   cases'[c] = cases[c]
       /\ \A p \in Procs :
             (Arrives(p) /\ req'[p].op # "createCase") =>
                cases[req'[p].cid].status
                   \notin {"PANEL_CREATED", "UNRESOLVED"}
       /\ \A c \in 1..Len(cases') :
             /\ Cardinality({i \in 1..Len(history') :
                   /\ history'[i].caseId = c
                   /\ history'[i].action
                         \in {"CASE_ACCEPTED", "CASE_REJECTED"}}) <= 1
             /\ Cardinality({i \in 1..Len(history') :
                   /\ history'[i].caseId = c
                   /\ history'[i].action = "WITNESSES_ADDED"}) <= 1]_vars

\* a second response, to a case that has its panel, was turned down
C28_Witness ==
    /\ Rejected(last)
    /\ last.op = "respond"
    /\ last.cid \in CaseIds
    /\ cases[last.cid].status = "PANEL_CREATED"
    /\ \E i \in 1..Len(history) : history[i].action = "CASE_ACCEPTED"

\* C29: a createCase of ann with ann's own address as the opposite party
\* succeeds with ann as complainant and respondent, the status
\* AWAITING_RESPONSE and both creation notifications for ann; ann's
\* response to that case is turned down only when the case is not
\* AWAITING_RESPONSE, and when it succeeds the status written is ACCEPTED
\* or UNRESOLVED as she chose.
C29_OwnCaseCreatedAndAnswered ==
    [][/\ (last'.pc = "done" /\ last'.op = "createCase"
              /\ last'.res = 201
              /\ last'.user = "ann" /\ last'.email = "ann@x") =>
             /\ last'.cid \in 1..Len(cases')
             /\ cases'[last'.cid].complainantId = "ann"
             /\ cases'[last'.cid].respondentId = "ann"
             /\ last'.post = "AWAITING_RESPONSE"
             /\ last'.notified =
                   << <<"ann", "Case Registered Successfully">>,
                      <<"ann", "New Case Filed Against You">> >>
       /\ (Rejects /\ last'.op = "respond" /\ last'.user = "ann"
              /\ cases[last'.cid].complainantId = "ann"
              /\ cases[last'.cid].respondentId = "ann") =>
             cases[last'.cid].status # "AWAITING_RESPONSE"
       /\ (last'.pc = "done" /\ last'.op = "respond" /\ ~Rejects) =>
             /\ last'.res = 200
             /\ last'.user = "ann"
             /\ cases'[last'.cid].complainantId = "ann"
             /\ last'.post = IF last'.accepted THEN "ACCEPTED"
                                               ELSE "UNRESOLVED"]_vars

\* ann rejected the case she filed against herself
C29_Witness ==
    /\ Succeeded(last)
    /\ last.op = "respond"
    /\ last.user = "ann"
    /\ cases[last.cid].complainantId = "ann"
    /\ cases[last.cid].respondentId = "ann"
    /\ ~last.accepted
    /\ cases[last.cid].status = "UNRESOLVED"
    /\ NotificationsFor("ann", last.cid, "New Case Filed Against You") = 1

\* the parties of case c
Parties(c) == {cases[c].complainantId, cases[c].respondentId} \ {NoUser}

=============================================================================
